---- MODULE Spec2Model ----
(***************************************************************************)
(* The game server of prediction-panic (convex/games.ts): the two tables   *)
(* games and currentRounds, the scheduler's queue of delayed tickGame      *)
(* calls, and one action per mutation.  Every mutation is one transaction: *)
(* a handler that throws leaves both tables and the queue as they were.    *)
(* What a handler throws is an operator of the state and the arguments     *)
(* (...Error, "" when it returns); the action then changes nothing.        *)
(*                                                                         *)
(* Representation.  A probability is kept in hundredths (0.5 is 50), a     *)
(* string of the join-code alphabet as the tuple of its character codes, a *)
(* question text as the index of the question in the pool, an optional     *)
(* argument as the empty set or a singleton.  A time is kept in            *)
(* milliseconds counted from the present: Date.now() reads 0, a stored     *)
(* time t stands for "t ms from now", and when d ms pass every stored time *)
(* goes down by d and stays at 0 once it has passed.                       *)
(***************************************************************************)
EXTENDS Integers, Sequences, FiniteSets, Bags, TLC

VARIABLES
    games,          \* table games: document id -> document (ids are 1, 2, ...)
    currentRounds,  \* table currentRounds, rows in insertion order
    scheduled,      \* bag of pending tickGame calls [gameId, at]
    nDup,           \* history: deliveries that left their tick pending
    nReset,         \* history: resetGame calls that went through
    startRounds,    \* history: per game, roundsRemaining at the last startGame
    skipped,        \* history: per game, rounds closed before endsAtMs since the last reset
    lastGuess,      \* history: per game and player, the last guess setPlayerGuess stored
    resetPending    \* history: per game, a tick was pending at the last resetGame and
                    \*          no tick of the game has run since

vars == <<games, currentRounds, scheduled,
          nDup, nReset, startRounds, skipped, lastGuess, resetPending>>

tables == <<games, currentRounds>>

history == <<nDup, nReset, startRounds, skipped, lastGuess, resetPending>>

----------------------------------------------------------------------------
(* Bounds of the model *)

PoolSize == 2

MaxGames == 2

MaxLetter == 1

MaxDup == 1

MaxResets == 1

\* fraction bits of the fixed-point numbers of the score arithmetic
Log2Bits == 10

----------------------------------------------------------------------------
(* Constants of the program *)

DEFAULT_N_ROUNDS == 100

DEFAULT_SECONDS_PER_QUESTION == 6

INTER_ROUND_DELAY == 300

SEED_GUESS == 50

QUICK_ID_LENGTH == 4

CHAR_A == 65

MS_PER_SECOND == 1000

Min(a, b) == IF a <= b THEN a ELSE b

Max(a, b) == IF a >= b THEN a ELSE b

\* Date.now()
now == 0

PlayerIds == {"p1", "p2"}

----------------------------------------------------------------------------
(* validation.ts *)

\* the question pool: text -> {left, right, answer}
fullQuestions ==
    [text \in 1..PoolSize |->
        [left |-> "no", right |-> "yes", answer |-> (text % 2 = 1)]]

PoolTexts == DOMAIN fullQuestions

\* String.prototype.trim on a tuple of character codes
RECURSIVE TrimLeft(_)
TrimLeft(s) == IF s # <<>> /\ Head(s) = 32 THEN TrimLeft(Tail(s)) ELSE s

RECURSIVE TrimRight(_)
TrimRight(s) ==
    IF s # <<>> /\ s[Len(s)] = 32 THEN TrimRight(SubSeq(s, 1, Len(s) - 1)) ELSE s

Trim(s) == TrimRight(TrimLeft(s))

\* String.prototype.toUpperCase
ToUpperCase(s) == [i \in DOMAIN s |-> IF s[i] \in 97..122 THEN s[i] - 32 ELSE s[i]]

\* gameQuickIdSchema: trim, toUpperCase, then length(4) and /^[A-Z]*$/
QuickIdTransform(s) == ToUpperCase(Trim(s))

QuickIdValid(s) ==
    LET t == QuickIdTransform(s) IN
    /\ Len(t) = QUICK_ID_LENGTH
    /\ \A i \in DOMAIN t : t[i] \in 65..90

gameSecondsPerQuestionSchema(n) == n >= 1 /\ n <= 60

\* mutant: no upper limit on the number of rounds
gameNumRoundsSchemaNoMax(n) == n >= 1

gameNumRoundsSchema(n) == n >= 1 /\ n <= PoolSize

\* mutant: no upper limit on a guess
gamePlayerGuessSchemaNoMax(g) == g >= 0

gamePlayerGuessSchema(g) == g >= 0 /\ g <= 100

----------------------------------------------------------------------------
(* scoreGuess (validation.ts) and getPlayerScores (Game.tsx)                 *)
(* A number of the score arithmetic is kept in fixed point, in units of      *)
(* 2^-Log2Bits, with -Infinity apart: [inf |-> TRUE, v |-> 0].  Math.log2 is *)
(* computed bit by bit (normalise to [1,2), then square and compare with 2); *)
(* like the library function it is exact on the powers of two.               *)

RECURSIVE Pow2(_)
Pow2(n) == IF n = 0 THEN 1 ELSE 2 * Pow2(n - 1)

\* 1.0 in fixed point
One == Pow2(Log2Bits)

\* the least k with num * 2^k >= den (0 < num <= den)
RECURSIVE Log2Shift(_, _)
Log2Shift(num, den) == IF num >= den THEN 0 ELSE 1 + Log2Shift(2 * num, den)

\* the fraction bits of log2(m), m in [1,2) in fixed point
RECURSIVE Log2Frac(_, _)
Log2Frac(m, bits) ==
    IF bits = 0 THEN 0
    ELSE LET sq == (m * m) \div One IN
         IF sq >= 2 * One THEN Pow2(bits - 1) + Log2Frac(sq \div 2, bits - 1)
         ELSE Log2Frac(sq, bits - 1)

\* Math.log2(num / den) in fixed point, for 0 < num <= den
Log2(num, den) ==
    LET k == Log2Shift(num, den) IN
    Log2Frac((num * Pow2(k) * One) \div den, Log2Bits) - k * One

Finite(v) == [inf |-> FALSE, v |-> v]

MinusInfinity == [inf |-> TRUE, v |-> 0]

\* a + b where neither is +Infinity or NaN
Plus(a, b) == IF a.inf \/ b.inf THEN MinusInfinity ELSE Finite(a.v + b.v)

\* mutant: 100 * Math.log2(p), without the 1 +
scoreGuessNoOffset(guess, answer) ==
    LET p == IF answer THEN guess ELSE 100 - guess IN
    IF p = 0 THEN MinusInfinity ELSE Finite(100 * Log2(p, 100))

\* 100 * (1 + Math.log2(answer ? guess : 1 - guess)), guess in hundredths
scoreGuess(guess, answer) ==
    LET p == IF answer THEN guess ELSE 100 - guess IN
    IF p = 0 THEN MinusInfinity ELSE Finite(100 * (One + Log2(p, 100)))

\* res[playerId] after the loop over the rounds (0 before the first entry)
RECURSIVE PlayerScore(_, _)
PlayerScore(finishedRounds, playerId) ==
    IF finishedRounds = <<>> THEN Finite(0)
    ELSE LET n == Len(finishedRounds)
             round == finishedRounds[n]
             before == PlayerScore(SubSeq(finishedRounds, 1, n - 1), playerId)
         IN
         IF playerId \in DOMAIN round.guesses
           THEN Plus(before, scoreGuess(round.guesses[playerId], round.answer))
           ELSE before

\* getPlayerScores(game): a total for every id that has an entry in some round
getPlayerScores(game) ==
    [playerId \in UNION {DOMAIN game.finishedRounds[i].guesses :
                            i \in DOMAIN game.finishedRounds} |->
        PlayerScore(game.finishedRounds, playerId)]

----------------------------------------------------------------------------
(* Helpers on records of the store *)

Opt(S) == {{}} \cup {{x} : x \in S}

The(o) == CHOOSE x \in o : TRUE

GameIds == DOMAIN games

\* { ...players, [playerId]: { name } }
WithPlayer(players, playerId, name) ==
    [q \in (DOMAIN players) \cup {playerId} |->
        IF q = playerId THEN [name |-> name] ELSE players[q]]

\* delete players[playerId]
WithoutPlayer(players, playerId) ==
    [q \in (DOMAIN players) \ {playerId} |-> players[q]]

\* mutant: the guesses of the other players are not spread into the new map
WithGuessAlone(guesses, playerId, guess) == [q \in {playerId} |-> guess]

\* { ...guesses, [playerId]: guess }
WithGuess(guesses, playerId, guess) ==
    [q \in (DOMAIN guesses) \cup {playerId} |->
        IF q = playerId THEN guess ELSE guesses[q]]

\* ctx.db.query("currentRounds").withIndex("by_gameId", q => q.eq("gameId", gameId))
RoundRows(gameId) == {i \in DOMAIN currentRounds : currentRounds[i].gameId = gameId}

RemoveAt(s, i) == [j \in 1..(Len(s) - 1) |-> IF j < i THEN s[j] ELSE s[j + 1]]

\* ctx.db.query("games").withIndex("by_quickId", q => q.eq("quickId", quickId))
GamesByQuickId(quickId) ==
    LET wanted == quickId IN {g \in GameIds : games[g].quickId = wanted}

\* ctx.scheduler.runAfter(delay, internal.games.tickGame, {gameId})
RunAfter(pending, delay, gameId) ==
    pending (+) SetToBag({[gameId |-> gameId, at |-> now + delay]})

----------------------------------------------------------------------------
Init ==
    /\ games = <<>>
    /\ currentRounds = <<>>
    /\ scheduled = EmptyBag
    /\ nDup = 0
    /\ nReset = 0
    /\ startRounds = <<>>
    /\ skipped = <<>>
    /\ lastGuess = <<>>
    /\ resetPending = <<>>

----------------------------------------------------------------------------
(* createGame *)

\* the letters Math.random can give: the draws are bounded to the codes AAA?
QuickIdDraws == {<<CHAR_A, CHAR_A, CHAR_A, CHAR_A + k>> : k \in 0..MaxLetter}

\* mutant: the draw is used without the lookup
quickIdNeverTaken(quickId) == FALSE

quickIdTaken(quickId) == GamesByQuickId(quickId) # {}

\* mutant: the default number of rounds, whatever the size of the pool
NewGameDefaultRounds(quickId, playerId) ==
    [quickId |-> quickId,
     started |-> FALSE,
     roundsRemaining |-> DEFAULT_N_ROUNDS,
     secondsPerQuestion |-> DEFAULT_SECONDS_PER_QUESTION,
     players |-> WithPlayer(<<>>, playerId, ""),
     finishedRounds |-> <<>>]

NewGame(quickId, playerId) ==
    [quickId |-> quickId,
     started |-> FALSE,
     roundsRemaining |-> Min(DEFAULT_N_ROUNDS, PoolSize),
     secondsPerQuestion |-> DEFAULT_SECONDS_PER_QUESTION,
     players |-> WithPlayer(<<>>, playerId, ""),
     finishedRounds |-> <<>>]

\* the do-while loop ends with the first draw that is not taken
CreateGame(playerId, draw) ==
    LET quickId == QuickIdTransform(draw) IN
    /\ QuickIdValid(draw)
    /\ ~quickIdTaken(quickId)
    /\ games' = Append(games, NewGame(quickId, playerId))
    /\ startRounds' = Append(startRounds, 0)
    /\ skipped' = Append(skipped, 0)
    /\ lastGuess' = Append(lastGuess, <<>>)
    /\ resetPending' = Append(resetPending, FALSE)
    /\ UNCHANGED <<currentRounds, scheduled, nDup, nReset>>

----------------------------------------------------------------------------
(* joinGame *)

\* the quickId the handler looks up
JoinQuickId(quickIdArg) == QuickIdTransform(ToUpperCase(QuickIdTransform(quickIdArg)))

joinGameError(quickIdArg) ==
    IF ~QuickIdValid(quickIdArg) THEN "validation"
    ELSE LET found == GamesByQuickId(JoinQuickId(quickIdArg)) IN
         IF found = {} THEN "Game not found."
         ELSE IF Cardinality(found) > 1 THEN "unique"
         ELSE ""

\* the game id joinGame returns
joinGameResult(quickIdArg) == The(GamesByQuickId(JoinQuickId(quickIdArg)))

\* mutant: the entry is written whether or not the player is a member
JoinedPlayersReset(players, playerId) == WithPlayer(players, playerId, "")

JoinedPlayers(players, playerId) ==
    IF playerId \in DOMAIN players THEN players ELSE WithPlayer(players, playerId, "")

JoinGame(quickIdArg, playerId) ==
    IF joinGameError(quickIdArg) # "" THEN UNCHANGED vars
    ELSE /\ games' = [games EXCEPT ![joinGameResult(quickIdArg)].players =
                         JoinedPlayers(@, playerId)]
         /\ UNCHANGED <<currentRounds, scheduled, history>>

----------------------------------------------------------------------------
(* leaveGame *)

leaveGameError(gameId) == IF gameId \notin GameIds THEN "Game not found." ELSE ""

\* mutant: leaving also takes the player's guess out of the open round
LeaveGameDropsGuess(gameId, playerId) ==
    IF leaveGameError(gameId) # "" THEN UNCHANGED vars
    ELSE /\ games' = [games EXCEPT ![gameId].players = WithoutPlayer(@, playerId)]
         /\ currentRounds' =
               [i \in DOMAIN currentRounds |->
                   IF currentRounds[i].gameId = gameId
                     THEN [currentRounds[i] EXCEPT
                              !.guesses = WithoutPlayer(@, playerId)]
                     ELSE currentRounds[i]]
         /\ UNCHANGED <<scheduled, history>>

LeaveGame(gameId, playerId) ==
    IF leaveGameError(gameId) # "" THEN UNCHANGED vars
    ELSE /\ games' = [games EXCEPT ![gameId].players = WithoutPlayer(@, playerId)]
         /\ UNCHANGED <<currentRounds, scheduled, history>>

----------------------------------------------------------------------------
(* updateGameSettings *)

\* the args object of the mutation: every supplied field passes its schema
SettingsArgsValid(roundsRemaining, secondsPerQuestion) ==
    /\ roundsRemaining # {} => gameNumRoundsSchema(The(roundsRemaining))
    /\ secondsPerQuestion # {} => gameSecondsPerQuestionSchema(The(secondsPerQuestion))

\* mutant: no check of game.started
settingsNeverLocked(game) == FALSE

settingsLocked(game) == game.started

updateGameSettingsError(gameId, roundsRemaining, secondsPerQuestion) ==
    IF ~SettingsArgsValid(roundsRemaining, secondsPerQuestion) THEN "validation"
    ELSE IF gameId \notin GameIds THEN "Game not found."
    ELSE IF settingsLocked(games[gameId]) THEN "Game started, cannot update settings."
    ELSE IF roundsRemaining # {} /\ ~gameNumRoundsSchema(The(roundsRemaining)) THEN "400"
    ELSE IF secondsPerQuestion # {}
              /\ ~gameSecondsPerQuestionSchema(The(secondsPerQuestion)) THEN "400"
    ELSE ""

\* mutant: a field that is not supplied goes back to its default
SettingsUpdatesDefaults(game, roundsRemaining, secondsPerQuestion, playerName) ==
    [game EXCEPT
        !.roundsRemaining =
            IF roundsRemaining # {} THEN The(roundsRemaining)
            ELSE Min(DEFAULT_N_ROUNDS, PoolSize),
        !.secondsPerQuestion =
            IF secondsPerQuestion # {} THEN The(secondsPerQuestion)
            ELSE DEFAULT_SECONDS_PER_QUESTION,
        !.players =
            IF playerName # {}
              THEN WithPlayer(@, The(playerName).playerId, The(playerName).name)
              ELSE @]

\* the updates object, applied by ctx.db.patch
SettingsUpdates(game, roundsRemaining, secondsPerQuestion, playerName) ==
    [game EXCEPT
        !.roundsRemaining =
            IF roundsRemaining # {} THEN The(roundsRemaining) ELSE @,
        !.secondsPerQuestion =
            IF secondsPerQuestion # {} THEN The(secondsPerQuestion) ELSE @,
        !.players =
            IF playerName # {}
              THEN WithPlayer(@, The(playerName).playerId, The(playerName).name)
              ELSE @]

UpdateGameSettings(gameId, roundsRemaining, secondsPerQuestion, playerName) ==
    IF updateGameSettingsError(gameId, roundsRemaining, secondsPerQuestion) # ""
      THEN UNCHANGED vars
    ELSE /\ games' = [games EXCEPT ![gameId] =
               SettingsUpdates(@, roundsRemaining, secondsPerQuestion, playerName)]
         /\ UNCHANGED <<currentRounds, scheduled, history>>

----------------------------------------------------------------------------
(* tickGame *)

\* mutant: the finished round gets fresh guesses instead of the round's
FinishedRoundReseeded(currentRound) ==
    [question |-> currentRound.question,
     answer |-> fullQuestions[currentRound.question.text].answer,
     guesses |-> [p \in DOMAIN currentRound.guesses |-> SEED_GUESS]]

\* mutant: the answer is not looked up in the pool
FinishedRoundAnswerTrue(currentRound) ==
    [question |-> currentRound.question,
     answer |-> TRUE,
     guesses |-> currentRound.guesses]

\* the finished round a closing tick appends
FinishedRound(currentRound) ==
    [question |-> currentRound.question,
     answer |-> fullQuestions[currentRound.question.text].answer,
     guesses |-> currentRound.guesses]

\* new Set(game.finishedRounds.map(round => round.question.text))
askedQuestions(game) ==
    {game.finishedRounds[i].question.text : i \in DOMAIN game.finishedRounds}

\* mutant: the sample is drawn from the whole pool
UnaskedUnfiltered(game) == PoolTexts

\* allQuestionTexts.filter(q => !askedQuestions.has(q)): what _.sample draws from
Unasked(game) == PoolTexts \ askedQuestions(game)

\* mutant: the round is opened with no guess in it
NewRoundNoSeed(gameId, game, nextQuestionText) ==
    [gameId |-> gameId,
     question |-> [text |-> nextQuestionText,
                   left |-> fullQuestions[nextQuestionText].left,
                   right |-> fullQuestions[nextQuestionText].right],
     guesses |-> <<>>,
     endsAtMs |-> now + game.secondsPerQuestion * MS_PER_SECOND]

\* the row a tick inserts when it opens a round
NewRound(gameId, game, nextQuestionText) ==
    [gameId |-> gameId,
     question |-> [text |-> nextQuestionText,
                   left |-> fullQuestions[nextQuestionText].left,
                   right |-> fullQuestions[nextQuestionText].right],
     guesses |-> [p \in DOMAIN game.players |-> SEED_GUESS],
     endsAtMs |-> now + game.secondsPerQuestion * MS_PER_SECOND]

\* mutant: roundsRemaining is looked at before the Current Round
TickBranchOpenFirst(gameId) ==
    IF gameId \notin GameIds THEN "missing"
    ELSE IF ~games[gameId].started THEN "Game not started."
    ELSE IF games[gameId].roundsRemaining > 0 /\ Unasked(games[gameId]) # {} THEN "open"
    ELSE IF RoundRows(gameId) # {} THEN "close"
    ELSE "gameOver"

\* mutant: the tick does not look at game.started
TickBranchNoStartedCheck(gameId) ==
    IF gameId \notin GameIds THEN "missing"
    ELSE IF Cardinality(RoundRows(gameId)) > 1 THEN "unique"
    ELSE IF RoundRows(gameId) # {} THEN "close"
    ELSE IF games[gameId].roundsRemaining <= 0 THEN "gameOver"
    ELSE IF Unasked(games[gameId]) = {} THEN "Internal error: Question not found"
    ELSE "open"

\* mutant: the tick does not look at roundsRemaining
TickBranchNoGameOver(gameId) ==
    IF gameId \notin GameIds THEN "missing"
    ELSE IF ~games[gameId].started THEN "Game not started."
    ELSE IF Cardinality(RoundRows(gameId)) > 1 THEN "unique"
    ELSE IF RoundRows(gameId) # {} THEN "close"
    ELSE IF Unasked(games[gameId]) = {} THEN "Internal error: Question not found"
    ELSE "open"

\* the branch a tick takes, or what it throws
TickBranch(gameId) ==
    IF gameId \notin GameIds THEN "missing"
    ELSE IF ~games[gameId].started THEN "Game not started."
    ELSE IF Cardinality(RoundRows(gameId)) > 1 THEN "unique"
    ELSE IF RoundRows(gameId) # {}
      THEN IF currentRounds[The(RoundRows(gameId))].question.text \notin PoolTexts
             THEN "Internal error: Question not found"
           ELSE "close"
    ELSE IF games[gameId].roundsRemaining <= 0 THEN "gameOver"
    ELSE IF Unasked(games[gameId]) = {} THEN "Internal error: Question not found"
    ELSE "open"

\* mutant: the closing tick arms no successor
CloseRoundNoRearm(gameId, pending) ==
    LET i == The(RoundRows(gameId))
        currentRound == currentRounds[i]
    IN
    /\ games' = [games EXCEPT ![gameId].finishedRounds =
                    Append(@, FinishedRound(currentRound))]
    /\ currentRounds' = RemoveAt(currentRounds, i)
    /\ scheduled' = pending
    /\ skipped' = [skipped EXCEPT ![gameId] =
                      IF now < currentRound.endsAtMs THEN @ + 1 ELSE @]

\* mutant: the tick that closes the last round puts the game back in the lobby
CloseRoundUnstarts(gameId, pending) ==
    LET i == The(RoundRows(gameId))
        currentRound == currentRounds[i]
    IN
    /\ games' = [games EXCEPT
                    ![gameId].finishedRounds = Append(@, FinishedRound(currentRound)),
                    ![gameId].started = games[gameId].roundsRemaining > 0]
    /\ currentRounds' = RemoveAt(currentRounds, i)
    /\ scheduled' = RunAfter(pending, INTER_ROUND_DELAY, gameId)
    /\ skipped' = [skipped EXCEPT ![gameId] =
                      IF now < currentRound.endsAtMs THEN @ + 1 ELSE @]

\* mutant: the finished round is put at the front of the history
CloseRoundPrepends(gameId, pending) ==
    LET i == The(RoundRows(gameId))
        currentRound == currentRounds[i]
    IN
    /\ games' = [games EXCEPT ![gameId].finishedRounds =
                    <<FinishedRound(currentRound)>> \o @]
    /\ currentRounds' = RemoveAt(currentRounds, i)
    /\ scheduled' = RunAfter(pending, INTER_ROUND_DELAY, gameId)
    /\ skipped' = [skipped EXCEPT ![gameId] =
                      IF now < currentRound.endsAtMs THEN @ + 1 ELSE @]

CloseRound(gameId, pending) ==
    LET i == The(RoundRows(gameId))
        currentRound == currentRounds[i]
    IN
    /\ games' = [games EXCEPT ![gameId].finishedRounds =
                    Append(@, FinishedRound(currentRound))]
    /\ currentRounds' = RemoveAt(currentRounds, i)
    /\ scheduled' = RunAfter(pending, INTER_ROUND_DELAY, gameId)
    /\ skipped' = [skipped EXCEPT ![gameId] =
                      IF now < currentRound.endsAtMs THEN @ + 1 ELSE @]

\* mutant: the tick opens a round without counting it
OpenRoundNoDecrement(gameId, pending) ==
    LET game == games[gameId] IN
    \E nextQuestionText \in Unasked(game) :
         /\ currentRounds' = Append(currentRounds, NewRound(gameId, game, nextQuestionText))
         /\ games' = games
         /\ scheduled' =
                RunAfter(pending, game.secondsPerQuestion * MS_PER_SECOND, gameId)
         /\ UNCHANGED skipped

OpenRound(gameId, pending) ==
    LET game == games[gameId] IN
    \E nextQuestionText \in Unasked(game) :
         /\ currentRounds' = Append(currentRounds, NewRound(gameId, game, nextQuestionText))
         /\ games' = [games EXCEPT ![gameId].roundsRemaining = game.roundsRemaining - 1]
         /\ scheduled' =
                RunAfter(pending, game.secondsPerQuestion * MS_PER_SECOND, gameId)
         /\ UNCHANGED skipped

\* the handler, run with `pending` as the queue it leaves behind it; a tick that
\* returns early or throws arms no successor and is not run again
TickGame(gameId, pending) ==
    /\ UNCHANGED <<nReset, startRounds, lastGuess>>
    /\ resetPending' = [g \in DOMAIN resetPending |-> g # gameId /\ resetPending[g]]
    /\ IF TickBranch(gameId) = "close" THEN CloseRound(gameId, pending)
       ELSE IF TickBranch(gameId) = "open" THEN OpenRound(gameId, pending)
       ELSE /\ scheduled' = pending
            /\ UNCHANGED <<games, currentRounds, skipped>>

Due == {t \in BagToSet(scheduled) : t.at <= now}

\* the scheduler runs a tick that is due, once
DeliverTick(t) ==
    /\ t \in Due
    /\ TickGame(t.gameId, scheduled (-) SetToBag({t}))
    /\ UNCHANGED nDup

\* at-least-once delivery: the tick runs and stays in the queue, to run again
RedeliverTick(t) ==
    /\ t \in Due
    /\ nDup < MaxDup
    /\ nDup' = nDup + 1
    /\ TickGame(t.gameId, scheduled)

RECURSIVE Copies(_, _)
Copies(B, S) ==
    IF S = {} THEN 0
    ELSE LET x == CHOOSE y \in S : TRUE IN CopiesIn(x, B) + Copies(B, S \ {x})

Later(t, d) == [t EXCEPT !.at = Max(0, @ - d)]

\* the queue d ms later
QueueLater(B, d) ==
    [e \in {Later(t, d) : t \in BagToSet(B)} |->
        Copies(B, {t \in BagToSet(B) : Later(t, d) = e})]

\* the rounds d ms later
RoundsLater(rows, d) ==
    [i \in DOMAIN rows |-> [rows[i] EXCEPT !.endsAtMs = Max(0, @ - d)]]

\* time passes, up to the time of any pending tick
Advance(t) ==
    /\ t \in BagToSet(scheduled)
    /\ t.at > now
    /\ scheduled' = QueueLater(scheduled, t.at - now)
    /\ currentRounds' = RoundsLater(currentRounds, t.at - now)
    /\ UNCHANGED <<games, history>>

----------------------------------------------------------------------------
(* startGame *)

\* mutant: no check of game.started
startGameErrorNoStartedCheck(gameId) ==
    IF gameId \notin GameIds THEN "Game not found."
    ELSE IF games[gameId].roundsRemaining <= 0 THEN "No rounds remaining."
    ELSE ""

startGameError(gameId) ==
    IF gameId \notin GameIds THEN "Game not found."
    ELSE IF games[gameId].started THEN "Game already started."
    ELSE IF games[gameId].roundsRemaining <= 0 THEN "No rounds remaining."
    ELSE ""

StartGame(gameId) ==
    IF startGameError(gameId) # "" THEN UNCHANGED vars
    ELSE /\ games' = [games EXCEPT ![gameId].started = TRUE]
         /\ scheduled' = RunAfter(scheduled, 0, gameId)
         /\ startRounds' = [startRounds EXCEPT ![gameId] = games[gameId].roundsRemaining]
         /\ UNCHANGED <<currentRounds, nDup, nReset, skipped, lastGuess, resetPending>>

----------------------------------------------------------------------------
(* setPlayerGuess *)

\* mutant: the question text is not compared
guessTargetAnyText(gameId, questionText) ==
    IF Cardinality(RoundRows(gameId)) > 1 THEN "unique"
    ELSE IF RoundRows(gameId) = {}
      THEN IF gameId \notin GameIds THEN "Game not found"
           ELSE IF games[gameId].finishedRounds = <<>> THEN "TypeError"
           ELSE "last"
    ELSE "current"

\* the round a guess for questionText goes to: "current", "last", or what is thrown
guessTarget(gameId, questionText) ==
    IF Cardinality(RoundRows(gameId)) > 1 THEN "unique"
    ELSE IF RoundRows(gameId) = {}
      THEN IF gameId \notin GameIds THEN "Game not found"
           ELSE IF games[gameId].finishedRounds = <<>> THEN "TypeError"
           ELSE IF games[gameId].finishedRounds[Len(games[gameId].finishedRounds)]
                        .question.text # questionText
             THEN "Internal error: Question text mismatch"
           ELSE "last"
    ELSE IF currentRounds[The(RoundRows(gameId))].question.text # questionText
      THEN "Internal error: Question text mismatch"
    ELSE "current"

setPlayerGuessError(gameId, questionText, guess) ==
    IF ~gamePlayerGuessSchema(guess) THEN "validation"
    ELSE IF guessTarget(gameId, questionText) \in {"current", "last"} THEN ""
    ELSE guessTarget(gameId, questionText)

\* history: the guess, and the round it was written to ("current" or "last")
Recorded(gameId, playerId, questionText, guess) ==
    lastGuess' = [lastGuess EXCEPT ![gameId] =
                     WithGuess(@, playerId,
                         [text |-> questionText, guess |-> guess,
                          via |-> guessTarget(gameId, questionText)])]

SetPlayerGuess(gameId, playerId, questionText, guess) ==
    IF setPlayerGuessError(gameId, questionText, guess) # "" THEN UNCHANGED vars
    ELSE /\ IF guessTarget(gameId, questionText) = "last"
              THEN /\ games' = [games EXCEPT
                         ![gameId].finishedRounds[Len(games[gameId].finishedRounds)].guesses =
                             WithGuess(@, playerId, guess)]
                   /\ UNCHANGED currentRounds
              ELSE /\ currentRounds' = [currentRounds EXCEPT
                         ![The(RoundRows(gameId))].guesses = WithGuess(@, playerId, guess)]
                   /\ UNCHANGED games
         /\ Recorded(gameId, playerId, questionText, guess)
         /\ UNCHANGED <<scheduled, nDup, nReset, startRounds, skipped, resetPending>>

----------------------------------------------------------------------------
(* resetGame *)

resetGameError(gameId) == IF gameId \notin GameIds THEN "patch" ELSE ""

\* mutant: the reset also deletes the open round of the game
ResetGameDeletesRound(gameId) ==
    IF resetGameError(gameId) # "" THEN UNCHANGED vars
    ELSE /\ nReset < MaxResets
         /\ games' = [games EXCEPT
               ![gameId].started = FALSE,
               ![gameId].roundsRemaining = Min(DEFAULT_N_ROUNDS, PoolSize),
               ![gameId].finishedRounds = <<>>]
         /\ currentRounds' = SelectSeq(currentRounds, LAMBDA row : row.gameId # gameId)
         /\ nReset' = nReset + 1
         /\ skipped' = [skipped EXCEPT ![gameId] = 0]
         /\ lastGuess' = [lastGuess EXCEPT ![gameId] = <<>>]
         /\ resetPending' = [resetPending EXCEPT ![gameId] =
                                 \E t \in BagToSet(scheduled) : t.gameId = gameId]
         /\ UNCHANGED <<scheduled, nDup, startRounds>>

ResetGame(gameId) ==
    IF resetGameError(gameId) # "" THEN UNCHANGED vars
    ELSE /\ nReset < MaxResets
         /\ games' = [games EXCEPT
               ![gameId].started = FALSE,
               ![gameId].roundsRemaining = Min(DEFAULT_N_ROUNDS, PoolSize),
               ![gameId].finishedRounds = <<>>]
         /\ nReset' = nReset + 1
         /\ skipped' = [skipped EXCEPT ![gameId] = 0]
         /\ lastGuess' = [lastGuess EXCEPT ![gameId] = <<>>]
         /\ resetPending' = [resetPending EXCEPT ![gameId] =
                                 \E t \in BagToSet(scheduled) : t.gameId = gameId]
         /\ UNCHANGED <<currentRounds, scheduled, nDup, startRounds>>

----------------------------------------------------------------------------
(* What the clients send *)

GameIdArgs == 1..MaxGames

QuickIdArgs == QuickIdDraws \cup {<<97, 97, 97, 97>>, <<CHAR_A, CHAR_A>>}

RoundsArgs == Opt({0, 1})

SecondsArgs == Opt({1, 61})

NameArgs == {"n"}

TextArgs == 0..PoolSize

GuessArgs == {80, 101}

\* the requests of the players P to the games that exist or not
Client(P) ==
    \/ \E p \in P, q \in QuickIdArgs : JoinGame(q, p)
    \/ \E g \in GameIdArgs, p \in P : LeaveGame(g, p)
    \/ \E g \in GameIdArgs, r \in RoundsArgs, s \in SecondsArgs,
          n \in Opt([playerId : P, name : NameArgs]) :
          UpdateGameSettings(g, r, s, n)
    \/ \E g \in GameIdArgs : StartGame(g)
    \/ \E g \in GameIdArgs, p \in P, q \in TextArgs, v \in GuessArgs :
          SetPlayerGuess(g, p, q, v)

\* the scheduler: it runs a tick at or after its time
Scheduler ==
    \/ \E t \in BagToSet(scheduled) : DeliverTick(t)
    \/ \E t \in BagToSet(scheduled) : Advance(t)

\* One game and one player, with everything that can happen to it: resetGame at
\* any moment and ticks delivered more than once.
Next ==
    \/ games = <<>> /\ \E q \in QuickIdDraws : CreateGame("p1", q)
    \/ Client({"p1"})
    \/ Scheduler
    \/ \E g \in GameIdArgs : ResetGame(g)
    \/ \E t \in BagToSet(scheduled) : RedeliverTick(t)

Spec == Init /\ [][Next]_vars

\* One game and two players; no resetGame, every tick delivered exactly once.
NextOnce ==
    \/ games = <<>> /\ \E p \in PlayerIds, q \in QuickIdDraws : CreateGame(p, q)
    \/ Client(PlayerIds)
    \/ Scheduler

SpecOnce == Init /\ [][NextOnce]_vars

\* Several games, created, joined, started, played and reset side by side.
NextGames ==
    \/ Len(games) < MaxGames /\ \E q \in QuickIdDraws : CreateGame("p1", q)
    \/ \E q \in QuickIdArgs : JoinGame(q, "p2")
    \/ \E g \in GameIdArgs : StartGame(g)
    \/ Scheduler
    \/ \E g \in GameIdArgs : ResetGame(g)

SpecGames == Init /\ [][NextGames]_vars

\* SpecOnce with the scheduler's guarantee: a pending tick is run, and time passes
LiveOnce ==
    /\ SpecOnce
    /\ WF_vars(\E t \in BagToSet(scheduled) : DeliverTick(t))
    /\ WF_vars(\E t \in BagToSet(scheduled) : Advance(t))

----------------------------------------------------------------------------
(* Vocabulary of the properties *)

HasRound(g) == RoundRows(g) # {}

Round(g) == currentRounds[The(RoundRows(g))]

Finished(g) == games[g].finishedRounds

LastFinished(g) == Finished(g)[Len(Finished(g))]

GameOver(g) == games[g].started /\ ~HasRound(g) /\ games[g].roundsRemaining = 0

\* the pending ticks of game g
PendingTicks(queue, g) == {t \in BagToSet(queue) : t.gameId = g}

NumPending(queue, g) == Copies(queue, PendingTicks(queue, g))

DistinctTexts(rounds) ==
    \A i, j \in DOMAIN rounds : i # j => rounds[i].question.text # rounds[j].question.text

ValidGuesses == {v \in GuessArgs : gamePlayerGuessSchema(v)}

\* a step that changes something: [][A]_vars asks A of no other step
Changed == vars' # vars

----------------------------------------------------------------------------
\* C1: in every reachable state, with resetGame at any moment and ticks delivered
\* more than once, no game has more than one row in currentRounds.
C1_AtMostOneCurrentRound == \A g \in GameIdArgs : Cardinality(RoundRows(g)) <= 1

\* a round is open after a tick was delivered twice and the game was reset
C1_Witness == \E g \in GameIds : HasRound(g) /\ nDup > 0 /\ nReset > 0

----------------------------------------------------------------------------
\* the last guess p sent is p's entry in the round of its question
GuessKept(g, p) ==
    LET sent == lastGuess[g][p] IN
    IF HasRound(g) /\ Round(g).question.text = sent.text
      THEN p \in DOMAIN Round(g).guesses /\ Round(g).guesses[p] = sent.guess
    ELSE \E i \in DOMAIN Finished(g) :
            /\ Finished(g)[i].question.text = sent.text
            /\ p \in DOMAIN Finished(g)[i].guesses
            /\ Finished(g)[i].guesses[p] = sent.guess

\* a guess for the open round, or for the round just closed, is not refused
GuessAccepted(g) ==
    \A v \in ValidGuesses :
        /\ HasRound(g) => setPlayerGuessError(g, Round(g).question.text, v) = ""
        /\ ~HasRound(g) /\ Finished(g) # <<>> =>
              setPlayerGuessError(g, LastFinished(g).question.text, v) = ""

\* C2: a guess for the question of the open round is accepted both while the round
\* is open and after the tick closed it (until the next round opens), and the
\* last guess a player sent for a question is then the player's entry of that
\* question's round: of the Current Round while it is open, of its finished
\* round once the tick has closed it.
C2_GuessNeverLost ==
    \A g \in GameIds :
        /\ GuessAccepted(g)
        /\ \A p \in DOMAIN lastGuess[g] : GuessKept(g, p)

\* both orders in one finished round: p1's guess went to the Current Round and was
\* folded by the tick, p2's came after the tick and went to the finished round
C2_Witness ==
    \E g \in GameIds :
        /\ ~HasRound(g)
        /\ DOMAIN lastGuess[g] = {"p1", "p2"}
        /\ lastGuess[g]["p1"].via = "current"
        /\ lastGuess[g]["p2"].via = "last"
        /\ lastGuess[g]["p1"].text = lastGuess[g]["p2"].text
        /\ LastFinished(g).question.text = lastGuess[g]["p1"].text

----------------------------------------------------------------------------
\* C3: in a game started with roundsRemaining = N (1 <= N <= pool size), never
\* reset, every tick delivered once: when N rounds have been opened and closed,
\* roundsRemaining is 0, no round is open and the N finished rounds have pairwise
\* distinct texts; and the game is over at no other moment.
C3_NRoundsPlayed ==
    \A g \in GameIds :
        games[g].started =>
            /\ startRounds[g] \in 1..PoolSize
            /\ Len(Finished(g)) <= startRounds[g]
            /\ DistinctTexts(Finished(g))
            /\ ~HasRound(g) /\ Len(Finished(g)) = startRounds[g] =>
                  games[g].roundsRemaining = 0
            /\ GameOver(g) => Len(Finished(g)) = startRounds[g]

\* a game started with the whole pool has played it
C3_Witness ==
    \E g \in GameIds :
        /\ GameOver(g)
        /\ startRounds[g] = PoolSize
        /\ Len(Finished(g)) = PoolSize

----------------------------------------------------------------------------
\* the game is over and the scheduler has nothing left for it
Halted(g) == g \in GameIds /\ GameOver(g) /\ PendingTicks(scheduled, g) = {}

\* the step is a tick of game g that finds the game over
GameOverTick(g) ==
    /\ g \in GameIds
    /\ TickBranch(g) = "gameOver"
    /\ \E t \in PendingTicks(scheduled, g) : DeliverTick(t)

\* C4: with every tick delivered (once) and no resetGame, a started game
\* eventually is over with no tick pending, and the tick that finds the game
\* over leaves no tick pending for it.
C4_EventuallyHalts ==
    /\ \A g \in GameIdArgs : (g \in GameIds /\ games[g].started) ~> Halted(g)
    /\ [][Changed => \A g \in GameIdArgs :
            GameOverTick(g) => PendingTicks(scheduled', g) = {}]_vars

\* a game that played the whole pool and halted
C4_Witness == \E g \in GameIdArgs : Halted(g) /\ Len(Finished(g)) = PoolSize

----------------------------------------------------------------------------
\* what updateGameSettings throws on a started game, for arguments of its schema
SettingsRejected ==
    \A g \in GameIds :
        games[g].started =>
            \A r \in RoundsArgs, s \in SecondsArgs :
                SettingsArgsValid(r, s) =>
                    updateGameSettingsError(g, r, s)
                        = "Game started, cannot update settings."

SettingsKept(g) ==
    /\ games'[g].roundsRemaining = games[g].roundsRemaining
    /\ games'[g].secondsPerQuestion = games[g].secondsPerQuestion
    /\ games'[g].players = games[g].players

\* a step that changes a setting of a started game is no updateGameSettings
SettingsUnchanged ==
    \A g \in GameIds :
        games[g].started =>
            \/ SettingsKept(g)
            \/ ~\E r \in RoundsArgs, s \in SecondsArgs,
                   n \in Opt([playerId : PlayerIds, name : NameArgs]) :
                   UpdateGameSettings(g, r, s, n)

\* C5: on a started game updateGameSettings throws "Game started, cannot update
\* settings." whichever of its optional fields are supplied, and the step
\* changes neither roundsRemaining nor secondsPerQuestion nor a display name.
C5_SettingsLockedAfterStart == []SettingsRejected /\ [][Changed => SettingsUnchanged]_vars

\* a started game whose settings were changed in the lobby
C5_Witness ==
    \E g \in GameIds :
        /\ games[g].started
        /\ games[g].secondsPerQuestion = 1
        /\ \E p \in DOMAIN games[g].players : games[g].players[p].name = "n"

----------------------------------------------------------------------------
\* the text a guess must carry
ExpectedText(g) ==
    IF HasRound(g) THEN Round(g).question.text ELSE LastFinished(g).question.text

Mismatch(g, q) ==
    /\ g \in GameIds
    /\ HasRound(g) \/ Finished(g) # <<>>
    /\ q # ExpectedText(g)

MismatchRejected ==
    \A g \in GameIdArgs, q \in TextArgs, v \in ValidGuesses :
        Mismatch(g, q) =>
            setPlayerGuessError(g, q, v) = "Internal error: Question text mismatch"

\* a step that changes a table is no setPlayerGuess with another text
MismatchUnchanged ==
    \/ UNCHANGED <<games, currentRounds>>
    \/ ~\E g \in GameIds, q \in TextArgs :
          /\ Mismatch(g, q)
          /\ \E p \in PlayerIds, v \in GuessArgs : SetPlayerGuess(g, p, q, v)

\* C6: when the game has an open round or a finished round, a setPlayerGuess whose
\* questionText is not the text of the open round (or, with no round open, of the
\* last finished round) throws "Internal error: Question text mismatch" and
\* changes neither table.
C6_MismatchRejected == []MismatchRejected /\ [][Changed => MismatchUnchanged]_vars

\* a round is open and another question is the last finished one
C6_Witness ==
    \E g \in GameIds :
        /\ HasRound(g)
        /\ Finished(g) # <<>>
        /\ LastFinished(g).question.text # Round(g).question.text

----------------------------------------------------------------------------
QuickIdsDistinct ==
    \A g, h \in GameIds : g # h => games[g].quickId # games[h].quickId

QuickIdsKept ==
    \A g \in GameIds : g \in DOMAIN games' /\ games'[g].quickId = games[g].quickId

\* C7: no two games have the same quickId, and a game keeps its quickId, started,
\* finished or reset: a code in use is never given to a game created later.
C7_UniqueJoinCodes == []QuickIdsDistinct /\ [][Changed => QuickIdsKept]_vars

\* all the games created, one of them reset, one started
C7_Witness ==
    /\ Len(games) = MaxGames
    /\ nReset > 0
    /\ \E g \in GameIds : games[g].started

----------------------------------------------------------------------------
\* joinGame returns the id of the game that has the code
JoinReturns ==
    \A q \in QuickIdArgs :
        joinGameError(q) = "" =>
            /\ joinGameResult(q) \in GameIds
            /\ games[joinGameResult(q)].quickId = ToUpperCase(Trim(q))

\* the step changes the players of g, by adding p if p is no member, and nothing else
Joined(g, p) ==
    LET before == games[g].players
        after == games'[g].players
    IN
    /\ games' = [games EXCEPT ![g].players = after]
    /\ currentRounds' = currentRounds
    /\ scheduled' = scheduled
    /\ IF p \in DOMAIN before THEN after = before
       ELSE /\ DOMAIN after = DOMAIN before \cup {p}
            /\ after[p] = [name |-> ""]
            /\ \A o \in DOMAIN before : after[o] = before[o]

JoinEffect ==
    \A q \in QuickIdArgs :
        joinGameError(q) = "" =>
            \A p \in PlayerIds : JoinGame(q, p) => Joined(joinGameResult(q), p)

\* C8: a joinGame that finds the game returns its id; for a member it leaves the
\* game as it is, for a non-member it adds that player with the name "" and
\* changes no other entry and nothing else.
C8_JoinIdempotent == []JoinReturns /\ [][Changed => JoinEffect]_vars

\* a joined player with the name "" beside a member who has set a name
C8_Witness ==
    \E g \in GameIds :
        /\ DOMAIN games[g].players = {"p1", "p2"}
        /\ \E p, o \in PlayerIds :
              games[g].players[p].name = "n" /\ games[g].players[o].name = ""

----------------------------------------------------------------------------
StartGuard ==
    \A g \in GameIds :
        startGameError(g) = "" <=> (~games[g].started /\ games[g].roundsRemaining > 0)

StartEffect ==
    \A g \in GameIdArgs :
        (g \in GameIds /\ StartGame(g)) =>
            IF ~games[g].started /\ games[g].roundsRemaining > 0
              THEN /\ games' = [games EXCEPT ![g].started = TRUE]
                   /\ currentRounds' = currentRounds
                   /\ NumPending(scheduled', g) = NumPending(scheduled, g) + 1
                   /\ scheduled' = scheduled (+) SetToBag({[gameId |-> g, at |-> 0]})
            ELSE UNCHANGED <<games, currentRounds, scheduled>>

----------------------------------------------------------------------------
\* C10: when one tick of a game is delivered twice and the game is not reset, at
\* most one round is closed before its endsAtMs.
C10_DuplicateAbsorbed ==
    \A g \in GameIds : (nDup <= 1 /\ nReset = 0) => skipped[g] <= 1

----------------------------------------------------------------------------
\* the step runs a pending tick of game g
TickRuns(g) ==
    \E t \in PendingTicks(scheduled, g) : DeliverTick(t) \/ RedeliverTick(t)

\* the tick found the game not started: nothing written, no successor armed
TickTerminated(g) ==
    /\ ~games[g].started
    /\ UNCHANGED tables
    /\ NumPending(scheduled', g) <= NumPending(scheduled, g)

\* C11: after a resetGame on a game that had a tick pending, the next tick of the
\* game to run finds started = false, changes neither table and arms no
\* successor, whatever joinGame, updateGameSettings, startGame and setPlayerGuess
\* did between the reset and the tick.
C11_StaleTickTerminates ==
    [][Changed => \A g \in GameIds :
          (resetPending[g] /\ TickRuns(g)) => TickTerminated(g)]_vars

----------------------------------------------------------------------------
\* One game and one player, ticks delivered more than once, and resetGame called
\* only on a game that is over.
NextOver ==
    \/ games = <<>> /\ \E q \in QuickIdDraws : CreateGame("p1", q)
    \/ Client({"p1"})
    \/ Scheduler
    \/ \E g \in GameIds : GameOver(g) /\ ResetGame(g)
    \/ \E t \in BagToSet(scheduled) : RedeliverTick(t)

SpecOver == Init /\ [][NextOver]_vars

\* C12: when resetGame is only called on a game that is over (started, no Current
\* Round, roundsRemaining = 0), no game with started = false has a Current Round.
C12_NoOrphanRound == \A g \in GameIds : ~games[g].started => ~HasRound(g)

\* a game reset when it was over, back in the lobby with its last tick still pending
C12_Witness == \E g \in GameIds : ~games[g].started /\ nReset > 0 /\ resetPending[g]

----------------------------------------------------------------------------
\* what a resetGame of game g leaves behind it
ResetEffect(g) ==
    /\ DOMAIN games' = DOMAIN games
    /\ ~games'[g].started
    /\ games'[g].roundsRemaining = Min(DEFAULT_N_ROUNDS, PoolSize)
    /\ games'[g].finishedRounds = <<>>
    /\ games'[g].players = games[g].players
    /\ games'[g].secondsPerQuestion = games[g].secondsPerQuestion
    /\ games'[g].quickId = games[g].quickId
    /\ \A h \in GameIds \ {g} : games'[h] = games[h]
    /\ currentRounds' = currentRounds
    /\ scheduled' = scheduled

\* C13: resetGame sets started = false, roundsRemaining = min(default rounds, pool
\* size) and finishedRounds = [], and changes nothing else: not the players, the
\* secondsPerQuestion or the join code of the game, no other game, no Current
\* Round (that of the game included) and no pending tick.
C13_ResetFrame ==
    [][Changed => \A g \in GameIds : ResetGame(g) => ResetEffect(g)]_vars

\* a game with two players reset in the middle of a round, beside a started game:
\* the round and its tick are still there
C13_Witness ==
    \E g \in GameIds :
        /\ nReset > 0
        /\ ~games[g].started
        /\ HasRound(g)
        /\ PendingTicks(scheduled, g) # {}
        /\ DOMAIN games[g].players = {"p1", "p2"}
        /\ \E h \in GameIds \ {g} : games[h].started

----------------------------------------------------------------------------
----------------------------------------------------------------------------
\* the step inserts a Current Round of game g
RoundOpened(g) ==
    /\ Len(currentRounds') = Len(currentRounds) + 1
    /\ currentRounds'[Len(currentRounds')].gameId = g

\* C15: in a step that leaves a game started, roundsRemaining does not go up; it
\* changes only in a tick that opens a round of the game, and that tick takes
\* exactly one from it.
C15_RoundsOnlyDecrease ==
    [][Changed => \A g \in GameIds :
          (games[g].started /\ games'[g].started) =>
              /\ games'[g].roundsRemaining <= games[g].roundsRemaining
              /\ RoundOpened(g) =>
                    games'[g].roundsRemaining = games[g].roundsRemaining - 1
              /\ games'[g].roundsRemaining # games[g].roundsRemaining =>
                    RoundOpened(g) /\ TickRuns(g)]_vars

\* a started game that has counted down the whole pool
C15_Witness ==
    \E g \in GameIds :
        /\ games[g].started
        /\ startRounds[g] = PoolSize
        /\ games[g].roundsRemaining = 0

----------------------------------------------------------------------------
\* the request with no optional field returns, and writes what was there
EmptyUpdateSucceeds ==
    \A g \in GameIds :
        ~games[g].started =>
            /\ updateGameSettingsError(g, {}, {}) = ""
            /\ SettingsUpdates(games[g], {}, {}, {}) = games[g]

\* the players after a request that names n (a set: empty, or one {playerId, name})
NamedPlayer(before, after, n) ==
    IF n = {} THEN after = before
    ELSE /\ DOMAIN after = DOMAIN before \cup {The(n).playerId}
         /\ after[The(n).playerId] = [name |-> The(n).name]
         /\ \A o \in DOMAIN before \ {The(n).playerId} : after[o] = before[o]

\* game g after updateGameSettings(g, r, s, n): the supplied fields and no other
SettingsApplied(g, r, s, n) ==
    /\ games'[g].roundsRemaining = IF r = {} THEN games[g].roundsRemaining ELSE The(r)
    /\ games'[g].secondsPerQuestion =
          IF s = {} THEN games[g].secondsPerQuestion ELSE The(s)
    /\ NamedPlayer(games[g].players, games'[g].players, n)
    /\ games'[g].quickId = games[g].quickId
    /\ games'[g].started = games[g].started
    /\ games'[g].finishedRounds = games[g].finishedRounds
    /\ currentRounds' = currentRounds
    /\ scheduled' = scheduled

\* C16: on a game in the lobby updateGameSettings changes the fields supplied and
\* no other: roundsRemaining when given, secondsPerQuestion when given, the entry
\* of the named player when given; the request with no optional field returns
\* and changes nothing; quickId, started and finishedRounds are never changed.
C16_SettingsFrame ==
    /\ []EmptyUpdateSucceeds
    /\ [][Changed => \A g \in GameIds :
            \/ games[g].started
            \/ games'[g] = games[g]
            \/ \A r \in RoundsArgs, s \in SecondsArgs,
                  n \in Opt([playerId : PlayerIds, name : NameArgs]) :
                  (updateGameSettingsError(g, r, s) = "" /\ UpdateGameSettings(g, r, s, n))
                      => SettingsApplied(g, r, s, n)]_vars

\* a lobby game of which only roundsRemaining was set
C16_Witness ==
    \E g \in GameIds :
        /\ ~games[g].started
        /\ nReset = 0
        /\ games[g].roundsRemaining = 1
        /\ games[g].secondsPerQuestion = DEFAULT_SECONDS_PER_QUESTION
        /\ \A p \in DOMAIN games[g].players : games[g].players[p].name = ""

----------------------------------------------------------------------------
\* the values around the limits of the two schemas
RoundsArgsWide == Opt({-1, 0, 1, PoolSize, PoolSize + 1})

SecondsArgsWide == Opt({0, 1, 60, 61})

\* One game whose settings are set to values in and out of range, then played
\* and reset.
NextSettings ==
    \/ games = <<>> /\ \E q \in QuickIdDraws : CreateGame("p1", q)
    \/ \E g \in GameIdArgs, r \in RoundsArgsWide, s \in SecondsArgsWide,
          n \in Opt([playerId : {"p1"}, name : NameArgs]) :
          UpdateGameSettings(g, r, s, n)
    \/ \E g \in GameIdArgs : StartGame(g)
    \/ Scheduler
    \/ \E g \in GameIdArgs : ResetGame(g)

SpecSettings == Init /\ [][NextSettings]_vars

\* a supplied value is outside its range
OutOfRange(r, s) ==
    \/ r # {} /\ The(r) \notin 1..PoolSize
    \/ s # {} /\ The(s) \notin 1..60

SettingsInRange ==
    \A g \in GameIds :
        /\ games[g].roundsRemaining \in 0..PoolSize
        /\ games[g].secondsPerQuestion \in 1..60

InvalidSettingsRejected ==
    \A g \in GameIdArgs, r \in RoundsArgsWide, s \in SecondsArgsWide :
        OutOfRange(r, s) => updateGameSettingsError(g, r, s) = "validation"

----------------------------------------------------------------------------
\* leaving a game one is no member of writes the players that were there
LeaveAbsentNoOp ==
    \A g \in GameIds, p \in PlayerIds :
        p \notin DOMAIN games[g].players =>
            /\ leaveGameError(g) = ""
            /\ WithoutPlayer(games[g].players, p) = games[g].players

\* game g after leaveGame(g, p): p's entry is gone, nothing else has moved
LeaveEffect(g, p) ==
    /\ DOMAIN games'[g].players = DOMAIN games[g].players \ {p}
    /\ \A o \in DOMAIN games'[g].players : games'[g].players[o] = games[g].players[o]
    /\ games' = [games EXCEPT ![g].players = games'[g].players]
    /\ currentRounds' = currentRounds
    /\ scheduled' = scheduled

\* C18: leaveGame takes the given player out of the players of the game and
\* changes nothing else; for a player who is no member the game stays as it is;
\* finishedRounds and the guesses of an open round, the leaving player's guess
\* included, are not changed.
C18_LeaveFrame ==
    /\ []LeaveAbsentNoOp
    /\ [][Changed => \A g \in GameIds :
            \/ games'[g].players = games[g].players
            \/ \A p \in PlayerIds : LeaveGame(g, p) => LeaveEffect(g, p)]_vars

\* the open round holds a guess under the id of a player who is no member any more
C18_Witness ==
    \E g \in GameIds :
        /\ HasRound(g)
        /\ "p2" \notin DOMAIN games[g].players
        /\ "p2" \in DOMAIN Round(g).guesses
        /\ Round(g).guesses["p2"] = 80
        /\ Finished(g) # <<>>

----------------------------------------------------------------------------
\* the step of createGame(p): one game more, in the lobby, and nothing else moved
Created(p) ==
    LET id == Len(games') IN
    /\ id = Len(games) + 1
    /\ SubSeq(games', 1, Len(games)) = games
    /\ ~games'[id].started
    /\ games'[id].roundsRemaining = Min(DEFAULT_N_ROUNDS, PoolSize)
    /\ games'[id].secondsPerQuestion = DEFAULT_SECONDS_PER_QUESTION
    /\ games'[id].finishedRounds = <<>>
    /\ DOMAIN games'[id].players = {p}
    /\ games'[id].players[p].name = ""
    /\ currentRounds' = currentRounds
    /\ scheduled' = scheduled
    /\ \A i \in DOMAIN currentRounds' : currentRounds'[i].gameId # id
    /\ \A t \in BagToSet(scheduled') : t.gameId # id

\* C19: createGame adds a game in the lobby: started = false, roundsRemaining =
\* min(default rounds, pool size), the default secondsPerQuestion, no finished
\* round, the creator as the only player, with the name "", no Current Round and
\* no pending tick; it changes no other game.
C19_CreateLobbyGame ==
    [][Changed => \/ Len(games') = Len(games)
                  \/ \A p \in PlayerIds, q \in QuickIdDraws :
                        CreateGame(p, q) => Created(p)]_vars

\* a game just created beside a game in the middle of a round
C19_Witness ==
    /\ Len(games) = MaxGames
    /\ games[MaxGames] = NewGame(games[MaxGames].quickId, "p1")
    /\ \E g \in GameIds : HasRound(g) /\ PendingTicks(scheduled, g) # {}

----------------------------------------------------------------------------
\* guesses at and around the limits of the schema (hundredths)
GuessArgsWide == {-1, 0, 100, 101}

\* One game played by two clients who send guesses in and out of range.
NextGuess ==
    \/ games = <<>> /\ \E q \in QuickIdDraws : CreateGame("p1", q)
    \/ \E g \in GameIdArgs : StartGame(g)
    \/ Scheduler
    \/ \E g \in GameIdArgs, p \in PlayerIds, q \in TextArgs, v \in GuessArgsWide :
          SetPlayerGuess(g, p, q, v)

SpecGuess == Init /\ [][NextGuess]_vars

GuessesIn(guesses) == \A p \in DOMAIN guesses : guesses[p] \in 0..100

GuessesInRange ==
    /\ \A i \in DOMAIN currentRounds : GuessesIn(currentRounds[i].guesses)
    /\ \A g \in GameIds : \A i \in DOMAIN Finished(g) : GuessesIn(Finished(g)[i].guesses)

OutOfRangeGuessRejected ==
    \A g \in GameIdArgs, q \in TextArgs, v \in GuessArgsWide :
        v \notin 0..100 => setPlayerGuessError(g, q, v) = "validation"

\* C20: every guess stored in a Current Round or in a finished round is in [0,1],
\* and a setPlayerGuess with a guess outside [0,1] is refused and writes nothing.
C20_GuessesInUnitInterval ==
    /\ []GuessesInRange
    /\ []OutOfRangeGuessRejected
    /\ [][Changed => \A g \in GameIdArgs, p \in PlayerIds, q \in TextArgs,
                        v \in GuessArgsWide :
            v \notin 0..100 => ~SetPlayerGuess(g, p, q, v)]_vars

\* a finished round holds both limits, beside an open round with its seed
C20_Witness ==
    \E g \in GameIds :
        /\ HasRound(g)
        /\ Round(g).guesses["p1"] = SEED_GUESS
        /\ Finished(g) # <<>>
        /\ DOMAIN LastFinished(g).guesses = {"p1", "p2"}
        /\ LastFinished(g).guesses["p1"] = 0
        /\ LastFinished(g).guesses["p2"] = 100

----------------------------------------------------------------------------
\* round i of game g holds the seed for p, or nothing
SeedOrNoEntry(g, i, p) ==
    \/ p \notin DOMAIN Finished(g)[i].guesses
    \/ Finished(g)[i].guesses[p] = SEED_GUESS

\* C21: scoreGuess(0.5, true) = scoreGuess(0.5, false) = 0, and a finished round
\* in which a player has the seed 0.5 or no entry adds 0 to that player's total:
\* the total is what it is without the round.
C21_SeedScoresZero ==
    /\ scoreGuess(SEED_GUESS, TRUE) = Finite(0)
    /\ scoreGuess(SEED_GUESS, FALSE) = Finite(0)
    /\ \A g \in GameIds, p \in PlayerIds : \A i \in DOMAIN Finished(g) :
          SeedOrNoEntry(g, i, p) =>
              PlayerScore(Finished(g), p) = PlayerScore(RemoveAt(Finished(g), i), p)

\* p1 has a guess that scores in one round and the seed in the other; p2 has an
\* entry in one round and none in the other
C21_Witness ==
    \E g \in GameIds :
        /\ Len(Finished(g)) = 2
        /\ PlayerScore(Finished(g), "p1") # Finite(0)
        /\ \E i \in DOMAIN Finished(g) :
              /\ "p1" \in DOMAIN Finished(g)[i].guesses
              /\ Finished(g)[i].guesses["p1"] = SEED_GUESS
        /\ \E i, j \in DOMAIN Finished(g) :
              /\ "p2" \notin DOMAIN Finished(g)[i].guesses
              /\ "p2" \in DOMAIN Finished(g)[j].guesses
        /\ "p2" \in DOMAIN getPlayerScores(games[g])

----------------------------------------------------------------------------
\* the queue after a run of tick t that armed one tick of game g, `delay` ms ahead
OneSuccessor(t, g, delay) ==
    LET armed == SetToBag({[gameId |-> g, at |-> now + delay]}) IN
    \/ DeliverTick(t) /\ scheduled' = (scheduled (-) SetToBag({t})) (+) armed
    \/ RedeliverTick(t) /\ scheduled' = scheduled (+) armed

\* the queue after a run of tick t that armed nothing
NoSuccessor(t) ==
    \/ DeliverTick(t) /\ scheduled' = scheduled (-) SetToBag({t})
    \/ RedeliverTick(t) /\ scheduled' = scheduled

\* the step is a run of tick t
Runs(t) == DeliverTick(t) \/ RedeliverTick(t)

\* what the tick t of game g leaves when it closes the round
Closed(t, g) ==
    /\ games' = [games EXCEPT ![g].finishedRounds =
          Append(@, [question |-> Round(g).question,
                     answer |-> fullQuestions[Round(g).question.text].answer,
                     guesses |-> Round(g).guesses])]
    /\ currentRounds' = RemoveAt(currentRounds, The(RoundRows(g)))
    /\ \A i \in DOMAIN currentRounds' : currentRounds'[i].gameId # g
    /\ OneSuccessor(t, g, INTER_ROUND_DELAY)

\* C22: a tick on a started game that has a Current Round appends one entry
\* {question of the round, answer of the pool for its text, guesses of the round}
\* to the end of finishedRounds, deletes the Current Round, leaves
\* roundsRemaining, started and players as they are and arms exactly one tick
\* after the inter-round delay, whatever roundsRemaining is.
C22_CloseBranch ==
    [][Changed => \A g \in GameIds :
          \/ TickBranch(g) # "close"
          \/ \A t \in PendingTicks(scheduled, g) : Runs(t) => Closed(t, g)]_vars

\* the last round of a game with roundsRemaining = 0 was closed, with a guess in
\* it, and the tick armed by the close is the only one pending
C22_Witness ==
    \E g \in GameIds :
        /\ games[g].roundsRemaining = 0
        /\ ~HasRound(g)
        /\ Len(Finished(g)) = PoolSize
        /\ \E p \in DOMAIN LastFinished(g).guesses : LastFinished(g).guesses[p] = 80
        /\ scheduled = SetToBag({[gameId |-> g, at |-> INTER_ROUND_DELAY]})

----------------------------------------------------------------------------
\* what the tick t of game g leaves when it opens a round
Opened(t, g) ==
    LET row == currentRounds'[Len(currentRounds')] IN
    /\ Len(currentRounds') = Len(currentRounds) + 1
    /\ SubSeq(currentRounds', 1, Len(currentRounds)) = currentRounds
    /\ row.gameId = g
    /\ row.question.text \in PoolTexts
    /\ row.question = [text |-> row.question.text,
                       left |-> fullQuestions[row.question.text].left,
                       right |-> fullQuestions[row.question.text].right]
    /\ DOMAIN row.guesses = DOMAIN games[g].players
    /\ \A p \in DOMAIN row.guesses : row.guesses[p] = SEED_GUESS
    /\ row.endsAtMs = now + games[g].secondsPerQuestion * MS_PER_SECOND
    /\ games' = [games EXCEPT ![g].roundsRemaining = games[g].roundsRemaining - 1]
    /\ OneSuccessor(t, g, games[g].secondsPerQuestion * MS_PER_SECOND)

\* round and counter move together in the steps of a started game
RoundWithCounter(g) ==
    (games[g].started /\ games'[g].started) =>
        (RoundOpened(g) <=> games'[g].roundsRemaining = games[g].roundsRemaining - 1)

\* C23: a tick on a started game with no Current Round and roundsRemaining > 0
\* inserts the Current Round and takes one from roundsRemaining in the same
\* step, never one without the other; the guesses of the new round are 0.5 for
\* exactly the players of the game at that moment, and exactly one tick is armed
\* secondsPerQuestion later.
C23_OpenBranch ==
    [][Changed => \A g \in GameIds :
          /\ RoundWithCounter(g)
          /\ \/ TickBranch(g) # "open"
             \/ \A t \in PendingTicks(scheduled, g) : Runs(t) => Opened(t, g)]_vars

\* a round just opened in a game set to one second per question
C23_Witness ==
    \E g \in GameIds :
        /\ HasRound(g)
        /\ DOMAIN games[g].players = {"p1"}
        /\ Round(g).guesses = [p \in {"p1"} |-> SEED_GUESS]
        /\ Round(g).endsAtMs = MS_PER_SECOND
        /\ games[g].roundsRemaining = startRounds[g] - 1
        /\ scheduled = SetToBag({[gameId |-> g, at |-> MS_PER_SECOND]})

----------------------------------------------------------------------------
\* C24: a tick on a started game with no Current Round and roundsRemaining <= 0
\* changes neither table and arms no tick.
C24_GameOverBranch ==
    [][Changed => \A g \in GameIds :
          \/ ~games[g].started
          \/ HasRound(g)
          \/ games[g].roundsRemaining > 0
          \/ \A t \in PendingTicks(scheduled, g) :
                Runs(t) => (UNCHANGED tables /\ NoSuccessor(t))]_vars

\* a game started again after a reset is over, and its queue is empty
C24_Witness ==
    \E g \in GameIds : GameOver(g) /\ nReset > 0 /\ scheduled = EmptyBag

----------------------------------------------------------------------------
\* C25: a tick that runs for a game with started = false throws "Game not
\* started.", changes neither table, an orphaned Current Round of the game
\* included, and arms no tick.
C25_TickBeforeStart ==
    [][Changed => \A g \in GameIds :
          \/ games[g].started
          \/ \A t \in PendingTicks(scheduled, g) :
                Runs(t) => /\ TickBranch(g) = "Game not started."
                           /\ UNCHANGED tables
                           /\ NoSuccessor(t)]_vars

\* the tick left by a reset in the middle of a round has run: the orphaned round
\* is still there and the queue is empty
C25_Witness ==
    \E g \in GameIds :
        /\ ~games[g].started
        /\ HasRound(g)
        /\ nReset > 0
        /\ ~resetPending[g]
        /\ scheduled = EmptyBag

----------------------------------------------------------------------------
\* C26: whenever a tick of a started game with no Current Round and
\* roundsRemaining > 0 is pending, the pool has a question whose text is in no
\* finished round of the game: the tick that opens a round never throws
\* "Internal error: Question not found".
C26_PoolNeverExhausted ==
    \A g \in GameIds :
        (/\ games[g].started
         /\ ~HasRound(g)
         /\ games[g].roundsRemaining > 0
         /\ PendingTicks(scheduled, g) # {}) => Unasked(games[g]) # {}

----------------------------------------------------------------------------
\* the guesses of a round of game g before and after a step: no entry is gone,
\* and an entry has changed only if its player has sent the new value for the
\* question of the round
EntriesKept(g, text, before, after) ==
    /\ DOMAIN before \subseteq DOMAIN after
    /\ \A p \in DOMAIN before :
          \/ after[p] = before[p]
          \/ \E v \in GuessArgs : after[p] = v /\ SetPlayerGuess(g, p, text, v)

\* the finished rounds of g stay in place with their entries (but for a reset)
FinishedEntriesKept(g) ==
    \/ ResetGame(g)
    \/ /\ Len(Finished(g)') >= Len(Finished(g))
       /\ \A i \in DOMAIN Finished(g) :
             EntriesKept(g, Finished(g)[i].question.text,
                         Finished(g)[i].guesses, Finished(g)'[i].guesses)

\* the open round of g stays open with its entries, or is closed with them
RoundEntriesKept(g) ==
    HasRound(g) =>
        LET after == IF HasRound(g)' THEN Round(g)' ELSE LastFinished(g)' IN
        /\ after.question = Round(g).question
        /\ EntriesKept(g, Round(g).question.text, Round(g).guesses, after.guesses)

\* a round of g is opened with the seed for the players of g
SeededForMembers(g) ==
    RoundOpened(g) =>
        /\ DOMAIN Round(g)'.guesses = DOMAIN games[g].players
        /\ \A p \in DOMAIN games[g].players : Round(g)'.guesses[p] = SEED_GUESS

\* C27: a round is opened with the seed 0.5 for every player who is a member at
\* that moment, and no leaveGame, setPlayerGuess or closing tick removes an entry
\* from the open round or from a finished round: every finished round has an
\* entry for every such player, the seed or the value the player last sent for
\* the question.
C27_SeedNeverRemoved ==
    [][Changed => \A g \in GameIds :
          /\ SeededForMembers(g)
          /\ RoundEntriesKept(g)
          /\ FinishedEntriesKept(g)]_vars

\* a finished round holds the seed of a player who has left since, beside the
\* guess of the other player
C27_Witness ==
    \E g \in GameIds :
        /\ Finished(g) # <<>>
        /\ "p2" \notin DOMAIN games[g].players
        /\ DOMAIN LastFinished(g).guesses = {"p1", "p2"}
        /\ LastFinished(g).guesses["p2"] = SEED_GUESS
        /\ LastFinished(g).guesses["p1"] = 80

----------------------------------------------------------------------------
\* a tick of a started game g with no round inserts one row, at the end
RowCreated(g) ==
    /\ games[g].started /\ ~HasRound(g) /\ TickRuns(g)
    /\ RoundOpened(g)
    /\ SubSeq(currentRounds', 1, Len(currentRounds)) = currentRounds

\* a tick of game g deletes the row of g
RowDeleted(g) ==
    /\ HasRound(g) /\ TickRuns(g)
    /\ currentRounds' = RemoveAt(currentRounds, The(RoundRows(g)))

\* a setPlayerGuess changes the guesses of the row of g, and only them
RowGuessed(g) ==
    /\ HasRound(g)
    /\ \E p \in PlayerIds, v \in GuessArgs :
          SetPlayerGuess(g, p, Round(g).question.text, v)
    /\ currentRounds' =
          [currentRounds EXCEPT ![The(RoundRows(g))].guesses = Round(g)'.guesses]

\* time passes: the stored endsAtMs stay, their distance from the present shrinks
TimePasses == \E t \in BagToSet(scheduled) : Advance(t)

\* C28: a Current Round is created only by a tick that opens a round, deleted only
\* by a tick that closes it, and changed only by setPlayerGuess, in its guesses
\* (never its question or its endsAtMs); createGame, joinGame, leaveGame,
\* updateGameSettings, startGame and resetGame leave the table as it is.
C28_CurrentRoundsWriters ==
    [][Changed =>
          \/ currentRounds' = currentRounds
          \/ TimePasses
          \/ \E g \in GameIds : RowCreated(g) \/ RowDeleted(g) \/ RowGuessed(g)]_vars

\* after a reset: a round with a guess in it is open, another was closed
C28_Witness ==
    \E g \in GameIds :
        /\ nReset > 0
        /\ Finished(g) # <<>>
        /\ HasRound(g)
        /\ "p1" \in DOMAIN Round(g).guesses
        /\ Round(g).guesses["p1"] = 80

----------------------------------------------------------------------------
\* a closing tick puts one entry at the end
FinishedAppended(g) ==
    /\ HasRound(g) /\ TickRuns(g)
    /\ Len(Finished(g)') = Len(Finished(g)) + 1
    /\ SubSeq(Finished(g)', 1, Len(Finished(g))) = Finished(g)

\* a late setPlayerGuess changes the guesses of the last entry, and only them
LastEntryGuessed(g) ==
    /\ ~HasRound(g)
    /\ Finished(g) # <<>>
    /\ \E p \in PlayerIds, v \in GuessArgs :
          SetPlayerGuess(g, p, LastFinished(g).question.text, v)
    /\ Finished(g)' =
          [Finished(g) EXCEPT ![Len(Finished(g))].guesses = LastFinished(g)'.guesses]

\* C29: between two resetGame calls finishedRounds only grows at its end: a step
\* leaves it as it is, or appends one entry (closing tick), or changes the
\* guesses of the last entry (late setPlayerGuess); the entries keep their place,
\* question and answer, and no entry but the last is changed.
C29_HistoryAppendOnly ==
    [][Changed => \A g \in GameIds :
          \/ Finished(g)' = Finished(g)
          \/ ResetGame(g)
          \/ FinishedAppended(g)
          \/ LastEntryGuessed(g)]_vars

\* after a reset, a history of two rounds whose last entry got a late guess
C29_Witness ==
    \E g \in GameIds :
        /\ nReset > 0
        /\ Len(Finished(g)) = 2
        /\ ~HasRound(g)
        /\ "p1" \in DOMAIN lastGuess[g]
        /\ lastGuess[g]["p1"].via = "last"
        /\ lastGuess[g]["p1"].text = LastFinished(g).question.text

----------------------------------------------------------------------------
\* the errors setPlayerGuess throws as ConvexError
StructuredGuessErrors == {"Game not found", "Internal error: Question text mismatch"}

\* C30: a setPlayerGuess on a game with no Current Round and no finished round (in
\* the lobby, between startGame and the first tick, right after resetGame) is
\* refused with a structured error, like the other refused guesses.
C30_NoRoundStructuredError ==
    \A g \in GameIds :
        (~HasRound(g) /\ Finished(g) = <<>>) =>
            \A q \in TextArgs, v \in ValidGuesses :
                setPlayerGuessError(g, q, v) \in StructuredGuessErrors

----------------------------------------------------------------------------
\* the rounds of game g that are played, being played or still to play
RoundsAccounted(g) ==
    Len(Finished(g)) + games[g].roundsRemaining + (IF HasRound(g) THEN 1 ELSE 0)

\* C31: in a game that is never reset, with each tick delivered exactly once, in
\* every state after a successful startGame, length(finishedRounds) +
\* roundsRemaining + (1 if a Current Round exists, else 0) is the roundsRemaining
\* the game had when it was started.
C31_RoundsConserved ==
    \A g \in GameIds : games[g].started => RoundsAccounted(g) = startRounds[g]

\* one round played, one open, none left, in a game started with the whole pool
C31_Witness ==
    \E g \in GameIds :
        /\ games[g].started
        /\ startRounds[g] = PoolSize
        /\ Len(Finished(g)) = 1
        /\ HasRound(g)
        /\ games[g].roundsRemaining = PoolSize - 2

----------------------------------------------------------------------------
\* the number of pending ticks of game g in every phase of the game
PendingByPhase(g) ==
    LET n == NumPending(scheduled, g) IN
    /\ ~games[g].started => n = 0
    /\ games[g].started /\ ~GameOver(g) => n = 1
    /\ GameOver(g) => n \in {0, 1}

\* what a step does to the number of pending ticks of game g: startGame arms the
\* first, the tick that finds the game over takes the last one away, and nothing
\* else changes the number
PendingStep(g) ==
    LET n == NumPending(scheduled, g)
        m == NumPending(scheduled', g)
    IN
    IF ~games[g].started THEN m = (IF games'[g].started THEN 1 ELSE 0)
    ELSE IF GameOverTick(g) THEN n = 1 /\ m = 0
    ELSE m = n

\* C32: in a game that is never reset, with each tick delivered exactly once, the
\* number of pending ticks of the game is 1 from the successful startGame until
\* the tick that takes the GameOver branch has run, and 0 before the start and
\* after that tick; it is never 2 or more.
C32_OnePendingTick ==
    /\ [](\A g \in GameIds : PendingByPhase(g))
    /\ [][Changed => \A g \in GameIds : PendingStep(g)]_vars

\* the game is over, both players have guessed in it, and no tick is left
C32_Witness ==
    \E g \in GameIds :
        /\ GameOver(g)
        /\ NumPending(scheduled, g) = 0
        /\ DOMAIN lastGuess[g] = PlayerIds

----------------------------------------------------------------------------
\* One game and one player, every tick delivered exactly once, and resetGame
\* called only on a game that is over.
NextOverOnce ==
    \/ games = <<>> /\ \E q \in QuickIdDraws : CreateGame("p1", q)
    \/ Client({"p1"})
    \/ Scheduler
    \/ \E g \in GameIds : GameOver(g) /\ ResetGame(g)

SpecOverOnce == Init /\ [][NextOverOnce]_vars

\* C33: when resetGame is only called on a game that is over (no Current Round,
\* roundsRemaining = 0) and each tick is delivered exactly once, no tick closes a
\* Current Round before its endsAtMs deadline, also in a game that is reset and
\* started again.
C33_NoEarlyClose == \A g \in GameIds : skipped[g] = 0

----------------------------------------------------------------------------
\* the text of the Current Round of game g is the text of no finished round
RoundTextFresh(g) ==
    HasRound(g) => Round(g).question.text \notin askedQuestions(games[g])

\* C34: in every reachable state, with resetGame at any moment and ticks
\* delivered more than once, the texts of the finished rounds of a game are
\* pairwise distinct and the text of its Current Round, if it has one, is the
\* text of none of its finished rounds.
C34_NoQuestionTwice ==
    \A g \in GameIds : DistinctTexts(Finished(g)) /\ RoundTextFresh(g)

\* a round is open beside a finished one, after a reset and a tick run twice
C34_Witness ==
    \E g \in GameIds :
        /\ HasRound(g)
        /\ Finished(g) # <<>>
        /\ nReset > 0
        /\ nDup > 0

----------------------------------------------------------------------------
\* C35: once a game is over and the tick that takes the GameOver branch has run
\* (no tick pending), its finishedRounds, and so every player's final score, no
\* longer change until resetGame: the fallback of setPlayerGuess accepts a late
\* guess only between the close of a round and the next tick.
C35_FinalHistoryFrozen ==
    [][Changed => \A g \in GameIds :
          Halted(g) =>
              /\ Finished(g)' = Finished(g)
              /\ getPlayerScores(games[g])' = getPlayerScores(games[g])]_vars

----------------------------------------------------------------------------
\* One game that p1 creates and nobody joins, leaves or renames in: its players
\* map is {p1} for ever, and guesses come from p1 and from p2, who never joined.
NextStranger ==
    \/ games = <<>> /\ \E q \in QuickIdDraws : CreateGame("p1", q)
    \/ \E g \in GameIdArgs : StartGame(g)
    \/ Scheduler
    \/ \E g \in GameIdArgs, p \in PlayerIds, q \in TextArgs, v \in GuessArgs :
          SetPlayerGuess(g, p, q, v)

SpecStranger == Init /\ [][NextStranger]_vars

\* the player ids with an entry in the Current Round or in a finished round of g
GuessKeys(g) ==
    UNION ({DOMAIN Finished(g)[i].guesses : i \in DOMAIN Finished(g)}
           \cup {DOMAIN currentRounds[i].guesses : i \in RoundRows(g)})

\* C36: every key of the guesses map of a Current Round or of a finished round is
\* the id of a player who was a member of the game no later than the write:
\* setPlayerGuess records no guess for a player id that never joined the game.
\* (In SpecStranger the members of a game are, at every moment, the keys of its
\* players map.)
C36_GuessersAreMembers ==
    \A g \in GameIds : GuessKeys(g) \subseteq DOMAIN games[g].players

----------------------------------------------------------------------------
\* C37: updateGameSettings never changes the set of member player ids of a game:
\* a playerName update changes the display name of an existing member only, and
\* adds or removes no key of the players map.
C37_SettingsKeepMembers ==
    [][Changed => \A g \in GameIds, r \in RoundsArgs, s \in SecondsArgs,
                     n \in Opt([playerId : PlayerIds, name : NameArgs]) :
          UpdateGameSettings(g, r, s, n) =>
              DOMAIN games'[g].players = DOMAIN games[g].players]_vars

----------------------------------------------------------------------------
\* between two guesses maps, the entry of p is now v and no other entry differs
OneEntrySet(before, after, p, v) ==
    /\ DOMAIN after = DOMAIN before \cup {p}
    /\ after[p] = v
    /\ \A o \in DOMAIN before \ {p} : after[o] = before[o]

\* the step changes the entry of p in the Current Round of g, and nothing else in
\* the tables
GuessInRound(g, p, v) ==
    LET i == The(RoundRows(g)) IN
    /\ games' = games
    /\ DOMAIN currentRounds' = DOMAIN currentRounds
    /\ \A j \in DOMAIN currentRounds \ {i} : currentRounds'[j] = currentRounds[j]
    /\ currentRounds'[i].gameId = currentRounds[i].gameId
    /\ currentRounds'[i].question = currentRounds[i].question
    /\ currentRounds'[i].endsAtMs = currentRounds[i].endsAtMs
    /\ OneEntrySet(currentRounds[i].guesses, currentRounds'[i].guesses, p, v)

\* the step changes the entry of p in the last finished round of g, and nothing
\* else in the tables
GuessInLastFinished(g, p, v) ==
    LET n == Len(Finished(g)) IN
    /\ currentRounds' = currentRounds
    /\ DOMAIN games' = DOMAIN games
    /\ \A h \in GameIds \ {g} : games'[h] = games[h]
    /\ games'[g].quickId = games[g].quickId
    /\ games'[g].started = games[g].started
    /\ games'[g].roundsRemaining = games[g].roundsRemaining
    /\ games'[g].secondsPerQuestion = games[g].secondsPerQuestion
    /\ games'[g].players = games[g].players
    /\ Len(Finished(g)') = n
    /\ \A j \in 1..(n - 1) : Finished(g)'[j] = Finished(g)[j]
    /\ Finished(g)'[n].question = Finished(g)[n].question
    /\ Finished(g)'[n].answer = Finished(g)[n].answer
    /\ OneEntrySet(Finished(g)[n].guesses, Finished(g)'[n].guesses, p, v)

\* what a successful setPlayerGuess(g, p, q, v) does
GuessEffect(g, p, q, v) ==
    /\ scheduled' = scheduled
    /\ IF HasRound(g)
         THEN Round(g).question.text = q /\ GuessInRound(g, p, v)
         ELSE LastFinished(g).question.text = q /\ GuessInLastFinished(g, p, v)

\* C38: a successful setPlayerGuess(game, p, Q, v) changes exactly one thing, the
\* entry of p in the guesses map of the one round of the game whose text is Q (the
\* Current Round, or the last finished round when no round is open): the guesses
\* of the other players, the other rounds, roundsRemaining, started, players and
\* the pending ticks are unchanged.
C38_GuessFrame ==
    [][Changed => \A g \in GameIds, p \in PlayerIds, q \in TextArgs, v \in ValidGuesses :
          SetPlayerGuess(g, p, q, v) => GuessEffect(g, p, q, v)]_vars

\* p1's late guess is in the finished round, and p2's guess is in the round open
\* now beside the seed of p1
C38_Witness ==
    \E g \in GameIds :
        /\ HasRound(g)
        /\ Finished(g) # <<>>
        /\ DOMAIN lastGuess[g] = {"p1", "p2"}
        /\ lastGuess[g]["p1"].via = "last"
        /\ lastGuess[g]["p1"].text = LastFinished(g).question.text
        /\ lastGuess[g]["p2"].via = "current"
        /\ lastGuess[g]["p2"].text = Round(g).question.text
        /\ "p1" \in DOMAIN Round(g).guesses
        /\ Round(g).guesses["p1"] = SEED_GUESS

====
